---- MODULE Spec2Model ----
(***************************************************************************)
(* A model of the WAM fuel price scraper                                   *)
(* (server/services/wam_fuel_scraper.py): one run of run_scraper, from the *)
(* listing GET to the process exit status, with the text heuristics of     *)
(* extract_fuel_prices computed character by character.                    *)
(*                                                                         *)
(* Python strings are sequences of one-character strings; indices follow   *)
(* Python (0-based) in Find and Slice.                                     *)
(***************************************************************************)
EXTENDS Integers, Sequences, FiniteSets, TLC

(***************************************************************************)
(* Python values                                                           *)
(***************************************************************************)
\* Python's None.
None == [py |-> "None"]

\* A Python float that is a decimal numeral: m / 10^e, with trailing zeros of
\* the fraction removed, so that equal numbers are equal records.
RECURSIVE Normalize(_, _)
Normalize(m, e) ==
    IF e > 0 /\ m % 10 = 0 THEN Normalize(m \div 10, e - 1)
    ELSE [py |-> "float", m |-> m, e |-> e]

Min(a, b) == IF a <= b THEN a ELSE b

(***************************************************************************)
(* String operations used by the scraper                                   *)
(***************************************************************************)
UpperCase == <<"A","B","C","D","E","F","G","H","I","J","K","L","M",
               "N","O","P","Q","R","S","T","U","V","W","X","Y","Z">>
LowerCase == <<"a","b","c","d","e","f","g","h","i","j","k","l","m",
               "n","o","p","q","r","s","t","u","v","w","x","y","z">>
Digits == <<"0","1","2","3","4","5","6","7","8","9">>

\* The characters of the modelled texts in code point order (str comparison).
CodePoints == <<" ", ",", "-", ".", "/">> \o Digits \o <<":">> \o UpperCase \o LowerCase

Ord(c) == CHOOSE i \in 1..Len(CodePoints) : CodePoints[i] = c

DigitSet == {Digits[i] : i \in 1..Len(Digits)}
DigitValue == [c \in DigitSet |-> (CHOOSE i \in 1..Len(Digits) : Digits[i] = c) - 1]

IsDigit(c) == c \in DigitSet

DigitVal(c) == DigitValue[c]

IsSpace(c) == c = " "

\* str.lower()
UpperSet == {UpperCase[i] : i \in 1..Len(UpperCase)}
LowerOf == [c \in UpperSet |-> LowerCase[CHOOSE i \in 1..Len(UpperCase) : UpperCase[i] = c]]

LowerChar(c) == IF c \in UpperSet THEN LowerOf[c] ELSE c

str_lower(s) == [i \in 1..Len(s) |-> LowerChar(s[i])]

\* s[a:b]
Slice(s, a, b) == SubSeq(s, a + 1, Min(b, Len(s)))

\* s.startswith(p, i)
StartsWithAt(s, i, p) ==
    /\ i + Len(p) <= Len(s)
    /\ \A k \in 1..Len(p) : s[i + k] = p[k]

str_startswith(s, p) == StartsWithAt(s, 0, p)

\* s.find(p): the first index of p in s, or -1.
str_find(s, p) ==
    LET at == {i \in 0..(Len(s) - Len(p)) : StartsWithAt(s, i, p)}
    IN  IF at = {} THEN -1 ELSE CHOOSE i \in at : \A j \in at : i <= j

\* p in s
str_contains(s, p) == str_find(s, p) # -1

\* s.strip()
RECURSIVE LStrip(_)
LStrip(s) == IF s # <<>> /\ IsSpace(Head(s)) THEN LStrip(Tail(s)) ELSE s

RECURSIVE RStrip(_)
RStrip(s) ==
    IF s # <<>> /\ IsSpace(s[Len(s)]) THEN RStrip(SubSeq(s, 1, Len(s) - 1)) ELSE s

str_strip(s) == RStrip(LStrip(s))

\* s.split(): the maximal runs of non-whitespace characters.
RECURSIVE SplitFrom(_, _, _)
SplitFrom(s, cur, acc) ==
    IF s = <<>> THEN (IF cur = <<>> THEN acc ELSE Append(acc, cur))
    ELSE IF IsSpace(Head(s))
         THEN SplitFrom(Tail(s), <<>>, IF cur = <<>> THEN acc ELSE Append(acc, cur))
         ELSE SplitFrom(Tail(s), Append(cur, Head(s)), acc)

str_split(s) == SplitFrom(s, <<>>, <<>>)

\* word.replace('.', '')
RemoveDots(w) == SelectSeq(w, LAMBDA c : c # ".")

\* matches[0].replace(',', '.')
CommaToDot(w) == [i \in 1..Len(w) |-> IF w[i] = "," THEN "." ELSE w[i]]

\* str.isdigit(): non-empty and digits only.
str_isdigit(w) == Len(w) > 0 /\ \A i \in 1..Len(w) : IsDigit(w[i])

RECURSIVE DigitsToNat(_)
DigitsToNat(ds) ==
    IF ds = <<>> THEN 0
    ELSE 10 * DigitsToNat(SubSeq(ds, 1, Len(ds) - 1)) + DigitVal(ds[Len(ds)])

CountDots(w) == Cardinality({i \in 1..Len(w) : w[i] = "."})

\* float(w) raises ValueError: on a string of digits and points, exactly when
\* it has more than one point or no digit.
FloatRaises(w) == CountDots(w) > 1 \/ ~str_isdigit(RemoveDots(w))

\* float(w) for a string of digits with at most one point.
FloatOf(w) ==
    LET dot == str_find(w, <<".">>)
        e   == IF dot = -1 THEN 0 ELSE Len(w) - dot - 1
    IN  Normalize(DigitsToNat(RemoveDots(w)), e)

\* The test "price is not None", which lets 0.0 through (a variant C10 tells
\* from the code's test).
TruthyNotNone(price) == price # None

\* bool(price) in "if price:": None and 0.0 are falsy.
Truthy(price) == price # None /\ price.m # 0

(***************************************************************************)
(* re.findall(r'(\d+[,.]\d+)', segment)                                    *)
(***************************************************************************)
\* The length of the run of digits of s that starts at 0-based index i.
RECURSIVE DigitRun(_, _)
DigitRun(s, i) ==
    IF i < Len(s) /\ IsDigit(s[i + 1]) THEN 1 + DigitRun(s, i + 1) ELSE 0

\* The length of the match of \d+[,.]\d+ at index i, 0 when there is none.
MatchLenAt(s, i) ==
    LET d1 == DigitRun(s, i) IN
    IF d1 = 0 \/ i + d1 >= Len(s) \/ s[i + d1 + 1] \notin {",", "."} THEN 0
    ELSE LET d2 == DigitRun(s, i + d1 + 1) IN
         IF d2 = 0 THEN 0 ELSE d1 + 1 + d2

\* matches[0] (the leftmost match), or the empty string when the list of
\* matches is empty.
re_first_match(s) ==
    LET at == {i \in 0..(Len(s) - 1) : MatchLenAt(s, i) > 0}
    IN  IF at = {} THEN <<>>
        ELSE LET i == CHOOSE i \in at : \A j \in at : i <= j
             IN  Slice(s, i, i + MatchLenAt(s, i))


(***************************************************************************)
(* extract_fuel_prices                                                     *)
(***************************************************************************)

LABEL_special_95 == <<"s", "p", "e", "c", "i", "a", "l", " ", "9", "5">>
LABEL_super_98 == <<"s", "u", "p", "e", "r", " ", "9", "8">>
LABEL_e_plus_91 == <<"e", "-", "p", "l", "u", "s", " ", "9", "1">>
LABEL_diesel == <<"d", "i", "e", "s", "e", "l">>
KW_aed == <<"a", "e", "d">>

\* The dict FUEL_TYPE_MAPPING in its iteration (insertion) order.
FUEL_TYPE_MAPPING ==
    << [key |-> LABEL_special_95, fuel_type |-> "PETROL"],
       [key |-> LABEL_super_98,   fuel_type |-> "SUPER"],
       [key |-> LABEL_e_plus_91,  fuel_type |-> "EPLUS"],
       [key |-> LABEL_diesel,     fuel_type |-> "DIESEL"] >>

\* segment = text_lower[pos:pos+100]
Window == 100
\* number_segment = segment[aed_pos+3:aed_pos+10]
AedSkip == 3
AedEnd == 10

Segment(text_lower, pos) == Slice(text_lower, pos, pos + Window)

\* The index of the first word that is digits once its points are removed,
\* 0 when no word is.
FirstNumberWord(words) ==
    IF \E i \in 1..Len(words) : str_isdigit(RemoveDots(words[i]))
    THEN CHOOSE i \in 1..Len(words) :
            /\ str_isdigit(RemoveDots(words[i]))
            /\ \A j \in 1..(i - 1) : ~str_isdigit(RemoveDots(words[j]))
    ELSE 0

\* number_segment of the "aed" pattern, all seven characters of it.
NumberSegment(segment, aed_pos) ==
    str_strip(Slice(segment, aed_pos + AedSkip, aed_pos + AedEnd))

\* The "aed" pattern: price is the float of the first number word after the
\* marker, None when there is no marker or no such word; raised when float()
\* raises ValueError on that word.
PrimaryPattern(segment) ==
    IF ~str_contains(segment, KW_aed) THEN [raised |-> FALSE, price |-> None]
    ELSE LET aed_pos == str_find(segment, KW_aed)
             words   == str_split(NumberSegment(segment, aed_pos))
             w       == FirstNumberWord(words)
         IN  IF w = 0 THEN [raised |-> FALSE, price |-> None]
             ELSE IF FloatRaises(words[w]) THEN [raised |-> TRUE, price |-> None]
             ELSE [raised |-> FALSE, price |-> FloatOf(words[w])]

\* The second pattern: the first digits-separator-digits match of the segment.
FallbackPattern(segment) ==
    LET m == re_first_match(segment)
    IN  IF m = <<>> THEN None ELSE FloatOf(CommaToDot(m))

\* The body of the try block for one fuel type: "continue" when the label is
\* not in the text, "raised" when an exception leaves the block, otherwise
\* "ok" with the price both patterns leave (None when neither found one).
TryBody(text_lower, key) ==
    LET pos == str_find(text_lower, key) IN
    IF pos = -1 THEN [outcome |-> "continue", price |-> None]
    ELSE LET segment == Segment(text_lower, pos)
             first   == PrimaryPattern(segment)
         IN  IF first.raised THEN [outcome |-> "raised", price |-> None]
             ELSE [outcome |-> "ok",
                   price   |-> IF first.price = None THEN FallbackPattern(segment)
                               ELSE first.price]

RECURSIVE ExtractLoop(_, _, _)

\* An except around the whole loop, which ends it at the first error (a
\* variant C7 tells from the code's handler).
ExceptHandlerAbort(text_lower, i, prices) == prices

\* except Exception inside the loop: the error is logged and the loop goes on
\* with the next fuel type.
ExceptHandler(text_lower, i, prices) == ExtractLoop(text_lower, i + 1, prices)

\* for key, fuel_type in FUEL_TYPE_MAPPING.items(), from the i-th item on.
ExtractLoop(text_lower, i, prices) ==
    IF i > Len(FUEL_TYPE_MAPPING) THEN prices
    ELSE LET r == TryBody(text_lower, FUEL_TYPE_MAPPING[i].key) IN
         IF r.outcome = "raised" THEN ExceptHandler(text_lower, i, prices)
         ELSE IF r.outcome = "ok" /\ Truthy(r.price)
              THEN ExtractLoop(text_lower, i + 1,
                               (FUEL_TYPE_MAPPING[i].fuel_type :> r.price) @@ prices)
              ELSE ExtractLoop(text_lower, i + 1, prices)

\* The dict prices at the end of the loop.
ExtractedPrices(article_text) == ExtractLoop(str_lower(article_text), 1, <<>>)

\* A report built without the test "if prices:" (a variant C1 tells from the
\* code's return).
ReportAlways(found) ==
    [py |-> "dict", prices |-> found, date |-> "utcnow",
     source |-> "WAM (Emirates News Agency)"]

\* if prices: return {...}; otherwise return None.
PriceReport(found) ==
    IF DOMAIN found # {}
    THEN [py |-> "dict", prices |-> found, date |-> "utcnow",
          source |-> "WAM (Emirates News Agency)"]
    ELSE None

(***************************************************************************)
(* Selection of the announcement (scrape_wam_for_fuel_prices)              *)
(***************************************************************************)

KW_fuel_price == <<"f", "u", "e", "l", " ", "p", "r", "i", "c", "e">>
KW_petrol_price == <<"p", "e", "t", "r", "o", "l", " ", "p", "r", "i", "c", "e">>
KW_announce == <<"a", "n", "n", "o", "u", "n", "c", "e">>
KW_set == <<"s", "e", "t">>
KW_http == <<"h", "t", "t", "p">>
WAM_ORIGIN == <<"h", "t", "t", "p", "s", ":", "/", "/", "w", "a", "m", ".", "a", "e">>

\* A Python str where None is possible too.
Str(s) == [py |-> "str", s |-> s]

\* An element select_one() found, with its text; an <a> with its href
\* attribute (None when the anchor has none).
Tag(text) == [py |-> "Tag", text |-> text]
Anchor(href) == [py |-> "Tag", href |-> href]

\* A card of the listing: what select_one() returns for '.card-title',
\* '.item-date' and 'a' (None when there is no such element).
Card(title_elem, date_elem, link_elem) ==
    [title_elem |-> title_elem, date_elem |-> date_elem, link_elem |-> link_elem]

\* all([title_elem, date_elem, link_elem]): an element is truthy, None is not.
AllElements(card) ==
    card.title_elem # None /\ card.date_elem # None /\ card.link_elem # None

\* The keyword test on the lower-cased title.
IsFuelPriceAnnouncement(title) ==
    /\ str_contains(title, KW_fuel_price) \/ str_contains(title, KW_petrol_price)
    /\ str_contains(title, KW_announce) \/ str_contains(title, KW_set)

\* The dict appended for a card that passes.
Candidate(card) ==
    [title |-> str_lower(str_strip(card.title_elem.text)),
     date  |-> str_strip(card.date_elem.text),
     link  |-> card.link_elem.href]

\* fuel_price_articles after the loop over the cards.
RECURSIVE FuelPriceArticles(_)
FuelPriceArticles(cards) ==
    IF cards = <<>> THEN <<>>
    ELSE LET card == Head(cards)
             rest == FuelPriceArticles(Tail(cards))
         IN  IF ~AllElements(card) THEN rest
             ELSE IF IsFuelPriceAnnouncement(Candidate(card).title)
                  THEN <<Candidate(card)>> \o rest
                  ELSE rest

\* a < b on str: by code points, a proper prefix first.
RECURSIVE StrLess(_, _)
StrLess(a, b) ==
    IF b = <<>> THEN FALSE
    ELSE IF a = <<>> THEN TRUE
    ELSE IF Head(a) = Head(b) THEN StrLess(Tail(a), Tail(b))
    ELSE Ord(Head(a)) < Ord(Head(b))

\* list.sort(key=date, reverse=True): stable, equal dates keep their order.
RECURSIVE InsertByDateDesc(_, _)
InsertByDateDesc(sorted, x) ==
    IF sorted = <<>> THEN <<x>>
    ELSE IF StrLess(Head(sorted).date, x.date) THEN <<x>> \o sorted
    ELSE <<Head(sorted)>> \o InsertByDateDesc(Tail(sorted), x)

RECURSIVE SortByDateDesc(_)
SortByDateDesc(cands) ==
    IF cands = <<>> THEN <<>>
    ELSE InsertByDateDesc(SortByDateDesc(SubSeq(cands, 1, Len(cands) - 1)),
                          cands[Len(cands)])

\* The first candidate of the unsorted list (a variant C8 tells from the
\* code's choice).
LatestUnsorted(cands) == cands[1]

\* latest_article = fuel_price_articles[0] after the sort.
LatestArticle(cands) == SortByDateDesc(cands)[1]

\* article_url: a link that does not start with 'http' gets the site's origin.
ArticleUrl(link) == IF str_startswith(link, KW_http) THEN link ELSE WAM_ORIGIN \o link

\* ' '.join([p.text.strip() for p in paragraphs])
RECURSIVE JoinStripped(_)
JoinStripped(paragraphs) ==
    IF paragraphs = <<>> THEN <<>>
    ELSE IF Len(paragraphs) = 1 THEN str_strip(paragraphs[1])
    ELSE str_strip(Head(paragraphs)) \o <<" ">> \o JoinStripped(Tail(paragraphs))

(***************************************************************************)
(* HTTP calls (requests.get / requests.post and raise_for_status)          *)
(***************************************************************************)
\* What one call can meet: no response (timeout, connection error) or a final
\* response of a status class (a 3xx is one requests does not follow).
Outcomes == {"timeout", "connection_error", "2xx", "3xx", "4xx", "5xx"}

\* requests.get / requests.post raise a RequestException.
RequestRaises(o) == o \in {"timeout", "connection_error"}

\* response.raise_for_status() raises HTTPError for 400 <= status < 600.
raise_for_status(o) == o \in {"4xx", "5xx"}

\* The call and its status check went through without an exception.
CallOk(o) == ~RequestRaises(o) /\ ~raise_for_status(o)

Call(method, target, o) ==
    [method |-> method, target |-> target, outcome |-> o, ok |-> CallOk(o)]

(***************************************************************************)
(* Inputs                                                                  *)
(***************************************************************************)

Title_Announced == <<"F", "u", "e", "l", " ", "p", "r", "i", "c", "e", "s", " ", "a", "n", "n", "o", "u", "n", "c", "e", "d", " ", "f", "o", "r", " ", "n", "e", "x", "t", " ", "m", "o", "n", "t", "h">>
Title_Unrelated == <<"U", "n", "r", "e", "l", "a", "t", "e", "d", " ", "n", "e", "w", "s">>
Title_PetrolSet == <<" ", "P", "e", "t", "r", "o", "l", " ", "p", "r", "i", "c", "e", " ", "s", "e", "t", " ">>
Title_Update == <<"F", "u", "e", "l", " ", "p", "r", "i", "c", "e", " ", "u", "p", "d", "a", "t", "e">>
Date_0630 == <<"2", "0", "2", "4", "-", "0", "6", "-", "3", "0">>
Date_0701 == <<"2", "0", "2", "4", "-", "0", "7", "-", "0", "1">>
Link_Rel == <<"/", "a">>
Link_Abs == <<"h", "t", "t", "p", ":", "/", "/", "w", "/", "b">>
Txt_special == <<"s", "p", "e", "c", "i", "a", "l", " ", "9", "5", " ">>
Txt_diesel == <<"d", "i", "e", "s", "e", "l", " ">>
Txt_cost272 == <<"w", "i", "l", "l", " ", "c", "o", "s", "t", " ", "A", "E", "D", " ", "2", ".", "7", "2", " ", "p", "e", "r", " ", "l", "i", "t", "r", "e", " ", "w", "h", "i", "l", "e", " ">>
Txt_aed280 == <<"A", "E", "D", " ", "2", ".", "8", "0", " ">>
Txt_aedLong == <<"a", "e", "d", " ", "1", "2", ".", "3", "4", "5", "6", " ">>
Txt_aedDot == <<"a", "e", "d", " ", "2", ".", "8", "0", ".", " ">>
Txt_aedZero == <<"a", "e", "d", " ", "0", ".", "0", "0", " ">>
Txt_comma == <<"2", ",", "8", "0", " ">>
Txt_commaZero == <<"0", ",", "0", " ">>
Txt_aedTbd == <<"a", "e", "d", " ", "t", "b", "d", " ">>
Txt_pad == [i \in 1..83 |-> "x"] \o <<" ">>

\* The longest listing, the most paragraphs of an article body and the most
\* clauses of an article text that are explored.
MaxCards == 2
MaxParas == 2
MaxClauses == 2

RECURSIVE SeqsUpTo(_, _)
SeqsUpTo(S, n) ==
    IF n = 0 THEN {<<>>}
    ELSE LET prev == SeqsUpTo(S, n - 1)
         IN  prev \cup {Append(s, x) : s \in prev, x \in S}

\* Cards of every shape: each element present or not, the anchor with or
\* without a link target.
TitleElems == {None, Tag(Title_Announced), Tag(Title_Unrelated),
               Tag(Title_PetrolSet), Tag(Title_Update)}
DateElems == {None, Tag(Date_0630), Tag(Date_0701)}
LinkElems == {None, Anchor(None), Anchor(Str(Link_Rel))}
AllCards == {Card(t, d, l) : t \in TitleElems, d \in DateElems, l \in LinkElems}
AllListings == SeqsUpTo(AllCards, MaxCards)

\* The listings and article bodies a whole run is explored with.
RunCards ==
    { Card(Tag(Title_Announced), Tag(Date_0630), Anchor(Str(Link_Rel))),
      Card(Tag(Title_Unrelated), Tag(Date_0701), Anchor(Str(Link_Abs))),
      Card(Tag(Title_PetrolSet), Tag(Date_0701), Anchor(Str(Link_Abs))),
      Card(Tag(Title_Announced), Tag(Date_0701), Anchor(None)) }
RunListings == SeqsUpTo(RunCards, MaxCards)

RunParagraphs ==
    { Txt_special \o Txt_cost272, Txt_diesel \o Txt_aed280, Txt_diesel \o Txt_aedZero }
\* select_one('.article-body'): None, or the element with its paragraphs.
ArticleBodies ==
    {None} \cup {[py |-> "Tag", paragraphs |-> ps] : ps \in SeqsUpTo(RunParagraphs, MaxParas)}

\* Article texts built from clauses: a label or none, then a price pattern,
\* filler or nothing.
ClauseLabels == {<<>>, Txt_special, Txt_diesel}
ClausePatterns ==
    {<<>>, Txt_cost272, Txt_aedLong, Txt_aedDot, Txt_comma, Txt_commaZero,
     Txt_aedTbd, Txt_pad}
Clauses == {l \o p : l \in ClauseLabels, p \in ClausePatterns}

RECURSIVE TextsUpTo(_)
TextsUpTo(n) ==
    IF n = 0 THEN {<<>>}
    ELSE LET prev == TextsUpTo(n - 1)
         IN  prev \cup {t \o c : t \in prev, c \in Clauses}
ArticleTexts == TextsUpTo(MaxClauses)

(***************************************************************************)
(* One run of run_scraper                                                  *)
(***************************************************************************)
VARIABLES
    pc,                   \* the stage the run is at
    calls,                \* the HTTP calls issued so far, in order
    articles,             \* the cards of the listing page
    fuel_price_articles,  \* the cards that passed the keyword test
    latest_article,       \* the card selected, None before
    article_url,          \* the URL of the article GET
    content,              \* the article body element, None before / when absent
    article_text,         \* the joined paragraph text
    prices,               \* the dict prices of extract_fuel_prices
    price_data,           \* what scrape_wam_for_fuel_prices returned
    success,              \* what run_scraper returned
    exit_code             \* the status of sys.exit, -1 while running

vars == <<pc, calls, articles, fuel_price_articles, latest_article, article_url,
          content, article_text, prices, price_data, success, exit_code>>

Stages == <<"START", "FETCHING_LISTING", "SELECTING", "FETCHING_ARTICLE",
            "EXTRACTING_CONTENT", "EXTRACTING_PRICES", "PUBLISHING", "DONE", "EXITED">>

\* A failing stage that is entered again (a variant C4 tells from the code's
\* return).
StageAfterFailureRetry(stage) == stage

\* A stage that fails returns None (False from the publisher): nothing
\* more of the pipeline runs, run_scraper returns False.
StageAfterFailure(stage) == "DONE"

Fails(stage) ==
    /\ pc' = StageAfterFailure(stage)
    /\ success' = FALSE

InitLocals ==
    /\ calls = <<>>
    /\ articles = <<>>
    /\ fuel_price_articles = <<>>
    /\ latest_article = None
    /\ article_url = <<>>
    /\ content = None
    /\ article_text = <<>>
    /\ prices = <<>>
    /\ price_data = None
    /\ success = FALSE
    /\ exit_code = -1

Init == pc = "START" /\ InitLocals

\* run_scraper() is called.
Start ==
    /\ pc = "START"
    /\ pc' = "FETCHING_LISTING"
    /\ UNCHANGED <<calls, articles, fuel_price_articles, latest_article, article_url,
                   content, article_text, prices, price_data, success, exit_code>>

\* The listing GET, its status check, and the cards of the page.
FetchListing ==
    /\ pc = "FETCHING_LISTING"
    /\ \E o \in Outcomes :
        /\ calls' = Append(calls, Call("GET", "listing", o))
        /\ IF ~CallOk(o)
           THEN Fails("FETCHING_LISTING") /\ UNCHANGED articles
           ELSE \E page \in RunListings :
                  /\ articles' = page
                  /\ IF page = <<>>
                     THEN Fails("FETCHING_LISTING")
                     ELSE pc' = "SELECTING" /\ UNCHANGED success
    /\ UNCHANGED <<fuel_price_articles, latest_article, article_url, content,
                   article_text, prices, price_data, exit_code>>

\* The loop over the cards, the sort, the choice and the article URL; a link
\* of None makes startswith raise AttributeError, which except Exception
\* turns into return None.
Select ==
    /\ pc = "SELECTING"
    /\ fuel_price_articles' = FuelPriceArticles(articles)
    /\ IF fuel_price_articles' = <<>>
       THEN Fails("SELECTING") /\ UNCHANGED <<latest_article, article_url>>
       ELSE /\ latest_article' = LatestArticle(fuel_price_articles')
            /\ IF latest_article'.link = None
               THEN Fails("SELECTING") /\ UNCHANGED article_url
               ELSE /\ article_url' = ArticleUrl(latest_article'.link.s)
                    /\ pc' = "FETCHING_ARTICLE"
                    /\ UNCHANGED success
    /\ UNCHANGED <<calls, articles, content, article_text, prices, price_data,
                   exit_code>>

\* The article GET and its status check.
FetchArticle ==
    /\ pc = "FETCHING_ARTICLE"
    /\ \E o \in Outcomes :
        /\ calls' = Append(calls, Call("GET", "article", o))
        /\ IF ~CallOk(o)
           THEN Fails("FETCHING_ARTICLE") /\ UNCHANGED content
           ELSE /\ \E body \in ArticleBodies : content' = body
                /\ pc' = "EXTRACTING_CONTENT"
                /\ UNCHANGED success
    /\ UNCHANGED <<articles, fuel_price_articles, latest_article, article_url,
                   article_text, prices, price_data, exit_code>>

\* select_one('.article-body') and the joined paragraphs.
ExtractContent ==
    /\ pc = "EXTRACTING_CONTENT"
    /\ IF content = None
       THEN Fails("EXTRACTING_CONTENT") /\ UNCHANGED article_text
       ELSE /\ article_text' = JoinStripped(content.paragraphs)
            /\ pc' = "EXTRACTING_PRICES"
            /\ UNCHANGED success
    /\ UNCHANGED <<calls, articles, fuel_price_articles, latest_article, article_url,
                   content, prices, price_data, exit_code>>

\* extract_fuel_prices(article_text), and run_scraper's "if price_data:".
ExtractPrices ==
    /\ pc = "EXTRACTING_PRICES"
    /\ prices' = ExtractedPrices(article_text)
    /\ price_data' = PriceReport(prices')
    /\ IF price_data' = None
       THEN Fails("EXTRACTING_PRICES")
       ELSE pc' = "PUBLISHING" /\ UNCHANGED success
    /\ UNCHANGED <<calls, articles, fuel_price_articles, latest_article, article_url,
                   content, article_text, exit_code>>

\* send_prices_to_tripxl(price_data): True unless the POST or its status
\* check raises a RequestException.
Publish ==
    /\ pc = "PUBLISHING"
    /\ \E o \in Outcomes :
        /\ calls' = Append(calls, Call("POST", "update", o))
        /\ IF ~CallOk(o)
           THEN Fails("PUBLISHING")
           ELSE pc' = "DONE" /\ success' = TRUE
    /\ UNCHANGED <<articles, fuel_price_articles, latest_article, article_url,
                   content, article_text, prices, price_data, exit_code>>

\* sys.exit(0 if success else 1)
Exit ==
    /\ pc = "DONE"
    /\ exit_code' = IF success THEN 0 ELSE 1
    /\ pc' = "EXITED"
    /\ UNCHANGED <<calls, articles, fuel_price_articles, latest_article, article_url,
                   content, article_text, prices, price_data, success>>

Next ==
    \/ Start
    \/ FetchListing
    \/ Select
    \/ FetchArticle
    \/ ExtractContent
    \/ ExtractPrices
    \/ Publish
    \/ Exit

Spec == Init /\ [][Next]_vars

\* The selection by itself, applied to every non-empty listing of AllListings.
InitSelect ==
    /\ pc = "SELECTING"
    /\ articles \in AllListings \ {<<>>}
    /\ calls = <<[method |-> "GET", target |-> "listing", outcome |-> "2xx", ok |-> TRUE]>>
    /\ fuel_price_articles = <<>>
    /\ latest_article = None
    /\ article_url = <<>>
    /\ content = None
    /\ article_text = <<>>
    /\ prices = <<>>
    /\ price_data = None
    /\ success = FALSE
    /\ exit_code = -1

NextSelect == Select

SpecSelect == InitSelect /\ [][NextSelect]_vars

\* extract_fuel_prices by itself, applied to every text of ArticleTexts.
InitExtract ==
    /\ pc = "EXTRACTING_PRICES"
    /\ article_text \in ArticleTexts
    /\ calls = <<>>
    /\ articles = <<>>
    /\ fuel_price_articles = <<>>
    /\ latest_article = None
    /\ article_url = <<>>
    /\ content = None
    /\ prices = <<>>
    /\ price_data = None
    /\ success = FALSE
    /\ exit_code = -1

NextExtract == ExtractPrices

SpecExtract == InitExtract /\ [][NextExtract]_vars

(***************************************************************************)
(* Properties                                                              *)
(***************************************************************************)
Rank(stage) == CHOOSE i \in 1..Len(Stages) : Stages[i] = stage

HasPost == \E i \in 1..Len(calls) : calls[i].method = "POST"

\* extract_fuel_prices has returned.
Extracted == Rank(pc) > Rank("EXTRACTING_PRICES")

\* The selection loop has run.
Selected == Rank(pc) > Rank("SELECTING")

\* The try block's result for each item of the mapping, on the lower-cased
\* article text.
BodyResults ==
    LET text_lower == str_lower(article_text)
    IN  [i \in 1..Len(FUEL_TYPE_MAPPING) |-> TryBody(text_lower, FUEL_TYPE_MAPPING[i].key)]

\* C1: a Price Report exists, and the POST is issued, only with a non-empty
\* price map; with an empty map there is no report, the run never reaches
\* the publish step, no POST is issued and the run reports failure.
C1_ReportOnlyIfPrices ==
    /\ price_data # None => DOMAIN price_data.prices # {}
    /\ HasPost => price_data # None /\ DOMAIN price_data.prices # {}
    /\ DOMAIN prices = {} =>
          /\ price_data = None
          /\ ~HasPost
          /\ pc # "PUBLISHING"
          /\ pc \in {"DONE", "EXITED"} => ~success
          /\ pc = "EXITED" => exit_code = 1

\* C1 witness: a run whose article names a fuel type but yields no price has
\* ended.
C1_Witness ==
    /\ pc = "EXITED"
    /\ str_contains(str_lower(article_text), LABEL_diesel)
    /\ DOMAIN prices = {}

\* C2: the exit status is 0 exactly when a report was extracted and the
\* downstream endpoint answered the POST with a 2xx status, and 1 otherwise.
C2_ExitStatus ==
    pc = "EXITED" =>
        /\ exit_code \in {0, 1}
        /\ exit_code = 0 <=>
              /\ price_data # None
              /\ \E i \in 1..Len(calls) :
                    calls[i].method = "POST" /\ calls[i].outcome = "2xx"

\* C3: every HTTP call of the run went through (its stage did not fail) if
\* and only if its response status was 2xx.
C3_SuccessIff2xx ==
    \A i \in 1..Len(calls) : calls[i].ok <=> calls[i].outcome = "2xx"

\* C4: the calls of a run are a prefix of listing GET, article GET, POST; the
\* article GET follows a listing GET that went through and a selection, the
\* POST follows two GETs that went through.
C4_Calls ==
    /\ Len(calls) <= 3
    /\ Cardinality({i \in 1..Len(calls) : calls[i].method = "GET"}) <= 2
    /\ Cardinality({i \in 1..Len(calls) : calls[i].method = "POST"}) <= 1
    /\ \A i \in 1..Len(calls) :
          /\ calls[i].target = <<"listing", "article", "update">>[i]
          /\ calls[i].method = <<"GET", "GET", "POST">>[i]
    /\ Len(calls) >= 2 => calls[1].ok /\ latest_article # None
    /\ Len(calls) >= 3 => calls[1].ok /\ calls[2].ok

\* C4: a step goes to the next stage or, on a failure, straight to
\* DONE(failure).
C4_Step ==
    pc' # pc =>
        \/ Rank(pc') = Rank(pc) + 1
        \/ pc' = "DONE" /\ ~success'

\* C4: the stages run strictly in order, with no backward step and no retry,
\* a failing stage ends the run at once, and the run issues at most two GETs
\* and one POST, each only after the stages before it went through.
C4_StagesInOrder == [](C4_Calls) /\ [][C4_Step]_vars

\* C4 witness: a run that ended after the article GET failed.
C4_Witness ==
    /\ pc = "EXITED"
    /\ Len(calls) = 2
    /\ ~calls[2].ok

\* The number written after the first "aed " of the window that starts at
\* pos: the run of non-blank characters after the marker and one blank, when
\* it is digits with an optional point and digits and ends inside the window;
\* the empty string otherwise.
RECURSIVE NonBlankRun(_, _)
NonBlankRun(s, i) ==
    IF i < Len(s) /\ ~IsSpace(s[i + 1]) THEN 1 + NonBlankRun(s, i + 1) ELSE 0

IsNumeral(w) ==
    /\ str_isdigit(RemoveDots(w))
    /\ CountDots(w) <= 1
    /\ IsDigit(w[1])
    /\ IsDigit(w[Len(w)])

AedNumber(text_lower, pos) ==
    LET rest == Slice(text_lower, pos, Len(text_lower))
        a    == str_find(Slice(rest, 0, Window), KW_aed)
    IN  IF a = -1 \/ a + 4 >= Len(rest) \/ ~IsSpace(rest[a + 4]) THEN <<>>
        ELSE LET n == NonBlankRun(rest, a + 4)
                 w == Slice(rest, a + 4, a + 4 + n)
             IN  IF n > 0 /\ a + 4 + n <= Window /\ IsNumeral(w) THEN w ELSE <<>>

\* C5: for each label of the mapping that occurs in the text with an
\* "aed <number>" pattern in its 100-character window, the number as written,
\* whatever its length, is returned under the label's code.
C5_AedNumberReturned ==
    Extracted =>
        LET text_lower == str_lower(article_text) IN
        \A i \in 1..Len(FUEL_TYPE_MAPPING) :
            LET pos == str_find(text_lower, FUEL_TYPE_MAPPING[i].key)
                w   == AedNumber(text_lower, pos)
            IN  (pos # -1 /\ w # <<>>) =>
                    /\ FUEL_TYPE_MAPPING[i].fuel_type \in DOMAIN prices
                    /\ prices[FUEL_TYPE_MAPPING[i].fuel_type] = FloatOf(w)

\* C6: for each label found in the text, when the "aed" pattern gives no
\* number (no marker, no number word, or a word float() cannot parse) and the
\* window has a digits-separator-digits match, the first match with ',' as
\* '.' is the recorded price, unless it is 0.
C6_FallbackApplied ==
    Extracted =>
        LET text_lower == str_lower(article_text) IN
        \A i \in 1..Len(FUEL_TYPE_MAPPING) :
            LET pos     == str_find(text_lower, FUEL_TYPE_MAPPING[i].key)
                segment == Segment(text_lower, pos)
                match   == re_first_match(segment)
            IN  (/\ pos # -1
                 /\ PrimaryPattern(segment).price = None
                 /\ match # <<>>
                 /\ FloatOf(CommaToDot(match)).m # 0) =>
                    /\ FUEL_TYPE_MAPPING[i].fuel_type \in DOMAIN prices
                    /\ prices[FUEL_TYPE_MAPPING[i].fuel_type] = FloatOf(CommaToDot(match))

\* C7: when the extraction of one fuel type raises, that fuel type alone is
\* left out: every other fuel type whose own extraction yields a price is
\* recorded with exactly that price, be it earlier or later in the mapping.
C7_ErrorsAreIsolated ==
    Extracted =>
        LET r == BodyResults IN
        \A i \in 1..Len(FUEL_TYPE_MAPPING) :
            r[i].outcome = "raised" =>
                /\ FUEL_TYPE_MAPPING[i].fuel_type \notin DOMAIN prices
                /\ \A j \in 1..Len(FUEL_TYPE_MAPPING) :
                      (j # i /\ r[j].outcome = "ok" /\ r[j].price # None /\ r[j].price.m # 0) =>
                          /\ FUEL_TYPE_MAPPING[j].fuel_type \in DOMAIN prices
                          /\ prices[FUEL_TYPE_MAPPING[j].fuel_type] = r[j].price

\* C7 witness: the first fuel type of the mapping raised and the last one was
\* recorded all the same.
C7_Witness ==
    /\ Extracted
    /\ BodyResults[1].outcome = "raised"
    /\ BodyResults[4].outcome = "ok"
    /\ "DIESEL" \in DOMAIN prices
    /\ "PETROL" \notin DOMAIN prices

\* The keyword test of the claim, on a card's title text.
TitleMatches(text) ==
    LET title == str_lower(str_strip(text)) IN
    /\ \E k \in {KW_fuel_price, KW_petrol_price} : str_contains(title, k)
    /\ \E k \in {KW_announce, KW_set} : str_contains(title, k)

\* A card with its three elements whose title passes the keyword test.
MatchingCard(card) ==
    /\ card.title_elem # None
    /\ card.date_elem # None
    /\ card.link_elem # None
    /\ TitleMatches(card.title_elem.text)

\* C8: the selected announcement is a card that passes the keyword test and
\* whose date text no card that passes exceeds; a card that fails the test is
\* never selected, whatever its date.
C8_LatestMatchingSelected ==
    Selected =>
        /\ (\E j \in 1..Len(articles) : MatchingCard(articles[j])) <=> latest_article # None
        /\ latest_article # None =>
              \E i \in 1..Len(articles) :
                  /\ MatchingCard(articles[i])
                  /\ latest_article.title = str_lower(str_strip(articles[i].title_elem.text))
                  /\ latest_article.date = str_strip(articles[i].date_elem.text)
                  /\ latest_article.link = articles[i].link_elem.href
                  /\ \A j \in 1..Len(articles) :
                        MatchingCard(articles[j]) =>
                            ~StrLess(latest_article.date, str_strip(articles[j].date_elem.text))

\* C8 witness: "Fuel prices announced for next month" of 2024-06-30 is
\* selected from a listing that has "Unrelated news" of 2024-07-01.
C8_Witness ==
    /\ Selected
    /\ latest_article # None
    /\ latest_article.date = Date_0630
    /\ \E j \in 1..Len(articles) :
          /\ articles[j].title_elem = Tag(Title_Unrelated)
          /\ articles[j].date_elem = Tag(Date_0701)
          /\ articles[j].link_elem # None

\* A card with a title, a date text and a link target.
CompleteCard(card) ==
    /\ card.title_elem # None
    /\ card.date_elem # None
    /\ card.link_elem # None
    /\ card.link_elem.href # None

\* C9: a card that lacks the title, the date text or the link (an anchor
\* with no link target too) is never a candidate, the selected announcement
\* has a link, and such a card neither changes which complete card is
\* selected nor makes the selection fail.
C9_IncompleteCardsDiscarded ==
    Selected =>
        /\ \A k \in 1..Len(fuel_price_articles) : fuel_price_articles[k].link # None
        /\ latest_article # None => latest_article.link # None
        /\ LET complete == SelectSeq(articles, CompleteCard) IN
           (\E j \in 1..Len(complete) : MatchingCard(complete[j])) =>
                /\ pc = "FETCHING_ARTICLE"
                /\ latest_article = LatestArticle(FuelPriceArticles(complete))

\* C10: every entry of the price map has a code of the mapping whose label is
\* in the text and a number above 0; a fuel type whose extraction raised,
\* whose recovered number is 0, or whose window has neither pattern is absent.
C10_EntriesArePositive ==
    Extracted =>
        LET text_lower == str_lower(article_text)
            r          == BodyResults
        IN
        /\ \A c \in DOMAIN prices :
              /\ \E i \in 1..Len(FUEL_TYPE_MAPPING) :
                    /\ FUEL_TYPE_MAPPING[i].fuel_type = c
                    /\ str_contains(text_lower, FUEL_TYPE_MAPPING[i].key)
              /\ prices[c].py = "float"
              /\ prices[c].m > 0
        /\ \A i \in 1..Len(FUEL_TYPE_MAPPING) :
              LET segment == Segment(text_lower, str_find(text_lower, FUEL_TYPE_MAPPING[i].key))
              IN  (\/ r[i].outcome = "raised"
                   \/ r[i].outcome = "continue"
                   \/ r[i].price = None
                   \/ r[i].price.m = 0
                   \/ /\ ~str_contains(segment, KW_aed)
                      /\ re_first_match(segment) = <<>>) =>
                      FUEL_TYPE_MAPPING[i].fuel_type \notin DOMAIN prices

\* C10 witness: a number of exactly 0 was recovered for a fuel type, which is
\* absent from the map.
C10_Witness ==
    /\ Extracted
    /\ \E i \in 1..Len(FUEL_TYPE_MAPPING) :
          /\ BodyResults[i].outcome = "ok"
          /\ BodyResults[i].price # None
          /\ BodyResults[i].price.m = 0
          /\ FUEL_TYPE_MAPPING[i].fuel_type \notin DOMAIN prices
====
